---------------------------- MODULE Spec2Model ----------------------------
(***************************************************************************)
(* Model of the stock dashboard's query pipeline and fetch orchestration:  *)
(*   - the local fallback computation of StockDataTable (filter, sort,     *)
(*     slice) over the bundled array mockStockData,                        *)
(*   - the request serialisation of stockApi.getStocks,                    *)
(*   - the example route handler GET (parse, filter, sort, paginate),      *)
(*   - the useStocks hook (request lifecycle: loading, error, data).       *)
(*                                                                         *)
(* Strings that the code lower-cases, searches or orders are sequences of  *)
(* UTF-16 code units; numbers are integers; an optional value (a value     *)
(* that may be undefined) is a sequence of length 0 or 1.                  *)
(***************************************************************************)
EXTENDS Integers, Sequences, FiniteSets, TLC

VARIABLES
    mockStockData,  \* the module-level array of lib/mock-data, in its current order
    loaded,         \* history: mockStockData as it was when the module was loaded
    query,          \* query engine: the query under test
    localOut,       \* query engine: the last local result, if any
    remoteOut,      \* query engine: the last remote result, if any
    probe,          \* history: a query whose first result is remembered
    probeOut,       \* history: the result of the first run of probe, if any
    options,        \* useStocks: the options of the current render
    data,           \* useStocks: useState data
    loading,        \* useStocks: useState loading
    error,          \* useStocks: useState error (Null or a message)
    pagination,     \* useStocks: useState pagination
    inflight,       \* useStocks: requests awaited and not yet settled
    issued,         \* history: number of requests issued so far
    shown,          \* history: the request whose settling last wrote the hook's state
    last,           \* history: what the last step of the hook did
    tableFilters,   \* StockDataTable: the filters prop (HomePage's state)
    sortOptions,    \* StockDataTable: useState sortOptions
    tablePagination,\* StockDataTable: useState pagination
    syncedTotal,    \* StockDataTable: the totalFiltered the total-sync useMemo last ran for
    view,           \* StockDataTable: paginatedData and totalFiltered of the last render
    requestedPage,  \* history: the page the last handler asked for
    compared,       \* two records, a sort field, and what the comparators return for them
    controls        \* PaginationControls: its pagination prop and the page-number list

queryVars == <<query, localOut, remoteOut, probe, probeOut>>
hookVars == <<options, data, loading, error, pagination, inflight, issued, shown, last>>
tableVars == <<tableFilters, sortOptions, tablePagination, syncedTotal, view, requestedPage>>
compareVars == <<compared>>
controlsVars == <<controls>>
vars == <<mockStockData, loaded, queryVars, hookVars, tableVars, compareVars, controlsVars>>

-----------------------------------------------------------------------------
(* Optional values *)

\* null, as the value of useStocks' error state (a message otherwise)
Null == "null"

None == <<>>
Some(x) == <<x>>
IsSome(o) == Len(o) = 1
Get(o) == o[1]

Min(a, b) == IF a < b THEN a ELSE b

-----------------------------------------------------------------------------
(* JavaScript strings as sequences of code units *)

\* String.prototype.toLowerCase on one code unit: "A".."Z" (65..90) map to "a".."z"
LowerUnit(c) == IF c >= 65 /\ c <= 90 THEN c + 32 ELSE c

ToLowerCase(s) == [i \in 1..Len(s) |-> LowerUnit(s[i])]

\* String.prototype.includes: t occurs in s as a contiguous substring
\* some unit of s is the first unit of t
IncludesFirstUnit(s, t) == t = <<>> \/ \E i \in 1..Len(s) : s[i] = t[1]

Includes(s, t) ==
    \E i \in 0..(Len(s) - Len(t)) : \A k \in 1..Len(t) : s[i + k] = t[k]

\* the relational operator < on two strings: lexicographic on code units
StrLess(a, b) ==
    \E i \in 1..(Min(Len(a), Len(b)) + 1) :
        /\ \A k \in 1..(i - 1) : a[k] = b[k]
        /\ \/ (i = Len(a) + 1 /\ i <= Len(b))
           \/ (i <= Len(a) /\ i <= Len(b) /\ a[i] < b[i])

RECURSIVE Digits(_)
Digits(n) == IF n < 10 THEN <<48 + n>> ELSE Digits(n \div 10) \o <<48 + (n % 10)>>

\* Number.prototype.toString of an integer
NumToString(n) == IF n < 0 THEN <<45>> \o Digits(0 - n) ELSE Digits(n)

IsDigit(c) == c >= 48 /\ c <= 57

NaN == "NaN"

RECURSIVE DigitsValue(_, _)
DigitsValue(s, acc) ==
    IF s = <<>> \/ ~IsDigit(Head(s)) THEN acc
    ELSE DigitsValue(Tail(s), 10 * acc + (Head(s) - 48))

\* Number.parseInt: an optional sign, then the longest prefix of digits
ParseInt(s) ==
    LET neg == s # <<>> /\ Head(s) = 45
        body == IF neg THEN Tail(s) ELSE s
    IN  IF body = <<>> \/ ~IsDigit(Head(body)) THEN NaN
        ELSE IF neg THEN 0 - DigitsValue(body, 0) ELSE DigitsValue(body, 0)

\* The string literals the code compares against
StrAllSectors == <<65, 108, 108, 32, 83, 101, 99, 116, 111, 114, 115>>  \* "All Sectors"
StrAll == <<97, 108, 108>>                                             \* "all"
StrUp == <<117, 112>>                                                  \* "up"
StrDown == <<100, 111, 119, 110>>                                      \* "down"
StrNeutral == <<110, 101, 117, 116, 114, 97, 108>>                     \* "neutral"
StrAsc == <<97, 115, 99>>                                              \* "asc"
StrDesc == <<100, 101, 115, 99>>                                       \* "desc"
StrOne == <<49>>                                                       \* "1"
StrTwentyFive == <<50, 53>>                                            \* "25"

\* Strings of the modelled data
StrEmpty == <<>>
StrAAPL == <<65, 65, 80, 76>>                                          \* "AAPL"
StrXYZ == <<88, 89, 90>>                                               \* "XYZ"
StrMsft == <<77, 83, 70, 84>>                                          \* "MSFT"
StrAppleInc == <<65, 112, 112, 108, 101, 32, 73, 110, 99>>             \* "Apple Inc"
StrApple == <<97, 112, 112, 108, 101>>                                 \* "apple"
StrMicrosoft == <<109, 105, 99, 114, 111, 115, 111, 102, 116>>         \* "microsoft"
StrTech == <<84, 101, 99, 104>>                                        \* "Tech"
StrEnergy == <<69, 110, 101, 114, 103, 121>>                           \* "Energy"
StrAPP == <<65, 80, 80>>                                               \* "APP"
StrSevenDays == <<55, 100>>                                            \* "7d"

-----------------------------------------------------------------------------
(* The data: StockData records and the bundled array *)

Instr(id, symbol, name, sector, price, chg, upd, dir, conf) ==
    [id |-> id, symbol |-> symbol, name |-> name, sector |-> sector,
     currentPrice |-> price, changePercent |-> chg, lastUpdated |-> upd,
     prediction |-> [direction |-> dir, confidence |-> conf]]

StockA == Instr(1, StrAAPL, StrApple, StrTech, 175, 2, 10, StrUp, 90)
StockX == Instr(2, StrXYZ, StrAppleInc, StrEnergy, 50, 0 - 3, 5, StrDown, 10)
StockM == Instr(3, StrMsft, StrMicrosoft, StrTech, 300, 0, 20, StrNeutral, 50)

\* the arrays lib/mock-data may export (its contents are data, not code)
Datasets == { <<StockA, StockX, StockM>>, <<StockM, StockA, StockX>> }

-----------------------------------------------------------------------------
(* The criteria: FilterOptions, SortOptions, pagination *)

Range(lo, hi) == [min |-> lo, max |-> hi]

AllTime == [from |-> None, to |-> None, preset |-> StrAll]

\* the initial filters of HomePage
DefaultFilters ==
    [search |-> StrEmpty, sector |-> StrAllSectors, priceRange |-> Range(0, 1000),
     changeRange |-> Range(0 - 10, 10), prediction |-> StrAll,
     confidence |-> Range(0, 100), dateRange |-> AllTime]

FilterValues ==
    { DefaultFilters,
      [DefaultFilters EXCEPT !.search = StrAAPL],
      [DefaultFilters EXCEPT !.search = StrAPP],
      [DefaultFilters EXCEPT !.sector = StrTech],
      [DefaultFilters EXCEPT !.priceRange = Range(175, 1000)],
      [DefaultFilters EXCEPT !.priceRange = Range(0, 175)],
      [DefaultFilters EXCEPT !.changeRange = Range(0 - 3, 0)],
      [DefaultFilters EXCEPT !.prediction = StrUp],
      [DefaultFilters EXCEPT !.confidence = Range(50, 90)],
      [DefaultFilters EXCEPT !.dateRange =
          [from |-> Some(8), to |-> Some(15), preset |-> StrSevenDays]],
      [DefaultFilters EXCEPT !.dateRange =
          [from |-> Some(8), to |-> None, preset |-> StrSevenDays]],
      [DefaultFilters EXCEPT !.search = StrAPP, !.sector = StrTech],
      [DefaultFilters EXCEPT !.sector = StrEnergy, !.prediction = StrUp],
      [DefaultFilters EXCEPT !.search = StrAPP, !.confidence = Range(50, 90)] }

\* the filters prop of StockDataTable is optional
FilterProps == {None} \cup {Some(f) : f \in FilterValues}

\* a sort field is the sequence of its dot-separated segments:
\* "symbol" is <<"symbol">>, "prediction.confidence" is <<"prediction", "confidence">>
SortFields ==
    { <<"symbol">>, <<"name">>, <<"sector">>, <<"currentPrice">>,
      <<"prediction", "direction">>, <<"prediction", "confidence">> }

SortValues == [field : SortFields, direction : {StrAsc, StrDesc}]

PageSizes == {1, 2}

MaxPage == 3

Queries ==
    [filters : FilterProps, sort : SortValues, page : 1..MaxPage, pageSize : PageSizes]

-----------------------------------------------------------------------------
(* Array helpers *)

\* Array.prototype.filter: a new array of the elements that pass, in order
Filter(arr, Keep(_)) == SelectSeq(arr, Keep)

\* Array.prototype.sort with a comparator: the stable arrangement (ES2019);
\* arr[i] comes after the elements that compare before it; an element is never
\* compared with itself, so an array of one element calls no comparator
ArraySort(arr, Cmp(_, _)) ==
    [k \in 1..Len(arr) |->
        arr[CHOOSE i \in 1..Len(arr) :
                Cardinality({j \in (1..Len(arr)) \ {i} :
                                 \/ Cmp(arr[j], arr[i]) < 0
                                 \/ (Cmp(arr[j], arr[i]) = 0 /\ j < i)}) = k - 1]]

\* Array.prototype.slice(start, end) for start >= 0
Slice(arr, start, end) == SubSeq(arr, start + 1, Min(end, Len(arr)))

\* Math.floor in place of Math.ceil
FloorDiv(a, b) == a \div b

\* Math.ceil(a / b) for a >= 0, b > 0
CeilDiv(a, b) == (a + b - 1) \div b

-----------------------------------------------------------------------------
(* The comparator shared in shape by both sorts *)

\* typeof value === "string" for the value a sort field resolves to
IsStringField(field) ==
    field \in { <<"symbol">>, <<"name">>, <<"sector">>, <<"prediction", "direction">> }

\* field.includes(".")
IsDotted(field) == Len(field) > 1

\* a[field], or a[parent][child] for a dotted field
FieldValue(a, field) == IF IsDotted(field) THEN a[field[1]][field[2]] ELSE a[field[1]]

\* the value as it is
SortKeyRaw(a, field) == FieldValue(a, field)

\* lower-case when a string
SortKey(a, field) ==
    IF IsStringField(field) THEN ToLowerCase(FieldValue(a, field)) ELSE FieldValue(a, field)

KeyLess(x, y, field) == IF IsStringField(field) THEN StrLess(x, y) ELSE x < y

-----------------------------------------------------------------------------
(* The filter criteria as the specification states them *)

\* the sub-conditions of the filter criteria, each on its own
SearchOk(stock, f) ==
    f.search = StrEmpty
    \/ Includes(ToLowerCase(stock.symbol), ToLowerCase(f.search))
    \/ Includes(ToLowerCase(stock.name), ToLowerCase(f.search))
SectorOk(stock, f) == f.sector = StrAllSectors \/ stock.sector = f.sector
PredictionOk(stock, f) == f.prediction = StrAll \/ stock.prediction.direction = f.prediction
PriceOk(stock, f) ==
    f.priceRange.min <= stock.currentPrice /\ stock.currentPrice <= f.priceRange.max
ChangeOk(stock, f) ==
    f.changeRange.min <= stock.changePercent /\ stock.changePercent <= f.changeRange.max
ConfidenceOk(stock, f) ==
    /\ f.confidence.min <= stock.prediction.confidence
    /\ stock.prediction.confidence <= f.confidence.max
DateOk(stock, f) ==
    \/ f.dateRange.preset = StrAll
    \/ /\ IsSome(f.dateRange.from) => Get(f.dateRange.from) <= stock.lastUpdated
       /\ IsSome(f.dateRange.to) => stock.lastUpdated <= Get(f.dateRange.to)

PassesAll(stock, f) ==
    /\ SearchOk(stock, f) /\ SectorOk(stock, f) /\ PredictionOk(stock, f)
    /\ PriceOk(stock, f) /\ ChangeOk(stock, f) /\ ConfidenceOk(stock, f)

-----------------------------------------------------------------------------
(* StockDataTable: the local fallback computation (paginatedData useMemo) *)

\* the price check with <= in place of <
LocalMatchesStrictPrice(stock, filters) ==
    /\ SearchOk(stock, filters) /\ SectorOk(stock, filters) /\ PredictionOk(stock, filters)
    /\ ChangeOk(stock, filters) /\ ConfidenceOk(stock, filters)
    /\ ~(stock.currentPrice <= filters.priceRange.min)
    /\ ~(stock.currentPrice > filters.priceRange.max)

\* the callback of filtered.filter: each failed check returns false at once
LocalMatches(stock, filters) ==
    IF /\ filters.search # StrEmpty
       /\ ~Includes(ToLowerCase(stock.symbol), ToLowerCase(filters.search))
       /\ ~Includes(ToLowerCase(stock.name), ToLowerCase(filters.search))
    THEN FALSE
    ELSE IF filters.sector # StrAllSectors /\ stock.sector # filters.sector
    THEN FALSE
    ELSE IF \/ stock.currentPrice < filters.priceRange.min
            \/ stock.currentPrice > filters.priceRange.max
    THEN FALSE
    ELSE IF \/ stock.changePercent < filters.changeRange.min
            \/ stock.changePercent > filters.changeRange.max
    THEN FALSE
    ELSE IF filters.prediction # StrAll /\ stock.prediction.direction # filters.prediction
    THEN FALSE
    ELSE IF \/ stock.prediction.confidence < filters.confidence.min
            \/ stock.prediction.confidence > filters.confidence.max
    THEN FALSE
    ELSE TRUE

\* the direction is not read
LocalCompareAscending(a, b, sortOpts) ==
    LET aValue == SortKey(a, sortOpts.field)
        bValue == SortKey(b, sortOpts.field)
    IN  IF KeyLess(aValue, bValue, sortOpts.field) THEN 0 - 1
        ELSE IF KeyLess(bValue, aValue, sortOpts.field) THEN 1 ELSE 0

\* the callback of filtered.sort
LocalCompare(a, b, sortOpts) ==
    LET aValue == SortKey(a, sortOpts.field)
        bValue == SortKey(b, sortOpts.field)
    IN  IF sortOpts.direction = StrAsc
        THEN IF KeyLess(aValue, bValue, sortOpts.field) THEN 0 - 1
             ELSE IF KeyLess(bValue, aValue, sortOpts.field) THEN 1 ELSE 0
        ELSE IF KeyLess(bValue, aValue, sortOpts.field) THEN 0 - 1
             ELSE IF KeyLess(aValue, bValue, sortOpts.field) THEN 1 ELSE 0

\* let filtered = mockStockData; if (filters) filtered = filtered.filter(...)
LocalFiltered(mock, filters) ==
    IF IsSome(filters)
    THEN LET Keep(stock) == LocalMatches(stock, Get(filters)) IN Filter(mock, Keep)
    ELSE mock

\* filtered.sort(...) sorts the array filtered refers to, in place
LocalSorted(mock, filters, sortOpts) ==
    LET Cmp(a, b) == LocalCompare(a, b, sortOpts)
    IN  ArraySort(LocalFiltered(mock, filters), Cmp)

\* the fallback branch: the page, the total, and mockStockData afterwards
\* (without filters, filtered is mockStockData itself and the sort reorders it)
LocalFallback(mock, filters, sortOpts, page, pageSize) ==
    LET sorted == LocalSorted(mock, filters, sortOpts)
        startIndex == (page - 1) * pageSize
        endIndex == startIndex + pageSize
    IN  [paginatedData |-> Slice(sorted, startIndex, endIndex),
         totalFiltered |-> Len(sorted),
         mock |-> IF IsSome(filters) THEN mock ELSE sorted]

\* the whole useMemo: the hook's data when it is non-empty and error is null
\* the API data is taken whenever it is not empty
PaginatedDataIgnoresError(apiData, err, mock, filters, sortOpts, page, pageSize) ==
    IF Len(apiData) > 0
    THEN [paginatedData |-> apiData, totalFiltered |-> Len(apiData), mock |-> mock]
    ELSE LocalFallback(mock, filters, sortOpts, page, pageSize)

PaginatedData(apiData, err, mock, filters, sortOpts, page, pageSize) ==
    IF Len(apiData) > 0 /\ err = Null
    THEN [paginatedData |-> apiData, totalFiltered |-> Len(apiData), mock |-> mock]
    ELSE LocalFallback(mock, filters, sortOpts, page, pageSize)

-----------------------------------------------------------------------------
(* stockApi.getStocks: the URLSearchParams it builds, a function from the   *)
(* appended names to their string values                                    *)

Param(cond, name, value) == IF cond THEN {<<name, value>>} ELSE {}

ToParams(pairs) == [n \in {p[1] : p \in pairs} |-> (CHOOSE p \in pairs : p[1] = n)[2]]

\* Date.prototype.toISOString: a timestamp is an integer here, its text the digits
ToISOString(d) == NumToString(d)

Serialize(filters, sort, pag) ==
    ToParams(
        (IF IsSome(pag)
         THEN {<<"page", NumToString(Get(pag).page)>>,
               <<"pageSize", NumToString(Get(pag).pageSize)>>}
         ELSE {})
        \cup
        (IF IsSome(sort)
         THEN {<<"sortBy", Get(sort).field>>, <<"sortOrder", Get(sort).direction>>}
         ELSE {})
        \cup
        (IF IsSome(filters)
         THEN LET f == Get(filters)
              IN  Param(f.search # StrEmpty, "search", f.search)
                  \cup Param(f.sector # StrAllSectors, "sector", f.sector)
                  \cup Param(f.prediction # StrAll, "prediction", f.prediction)
                  \cup Param(f.priceRange.min > 0, "minPrice", NumToString(f.priceRange.min))
                  \cup Param(f.priceRange.max < 1000, "maxPrice", NumToString(f.priceRange.max))
                  \cup Param(f.changeRange.min > 0 - 10, "minChange", NumToString(f.changeRange.min))
                  \cup Param(f.changeRange.max < 10, "maxChange", NumToString(f.changeRange.max))
                  \cup Param(f.confidence.min > 0, "minConfidence", NumToString(f.confidence.min))
                  \cup Param(f.confidence.max < 100, "maxConfidence", NumToString(f.confidence.max))
                  \cup Param(IsSome(f.dateRange.from), "fromDate", ToISOString(Get(f.dateRange.from)))
                  \cup Param(IsSome(f.dateRange.to), "toDate", ToISOString(Get(f.dateRange.to)))
         ELSE {}))

-----------------------------------------------------------------------------
(* The route handler GET *)

\* searchParams.get(name) || fallback: absent (null) and "" both give the fallback
GetOr(searchParams, name, fallback) ==
    IF name \in DOMAIN searchParams /\ searchParams[name] # <<>>
    THEN searchParams[name] ELSE fallback

\* if (x) for x = searchParams.get(name): present and not ""
Truthy(searchParams, name) == name \in DOMAIN searchParams /\ searchParams[name] # <<>>

\* the callback of filteredData.sort
RemoteCompare(a, b, sortBy, sortOrder) ==
    LET aValue == SortKey(a, sortBy)
        bValue == SortKey(b, sortBy)
    IN  IF sortOrder = StrAsc
        THEN IF KeyLess(aValue, bValue, sortBy) THEN 0 - 1
             ELSE IF KeyLess(bValue, aValue, sortBy) THEN 1 ELSE 0
        ELSE IF KeyLess(bValue, aValue, sortBy) THEN 0 - 1
             ELSE IF KeyLess(aValue, bValue, sortBy) THEN 1 ELSE 0

\* the three filter stages; each one that runs makes a new array
RemoteFiltered(mock, searchParams) ==
    LET bySearch(stock) ==
            \/ Includes(ToLowerCase(stock.symbol), ToLowerCase(searchParams["search"]))
            \/ Includes(ToLowerCase(stock.name), ToLowerCase(searchParams["search"]))
        bySector(stock) == stock.sector = searchParams["sector"]
        byPrediction(stock) == stock.prediction.direction = searchParams["prediction"]
        f1 == IF Truthy(searchParams, "search") THEN Filter(mock, bySearch) ELSE mock
        f2 == IF Truthy(searchParams, "sector") /\ searchParams["sector"] # StrAllSectors
              THEN Filter(f1, bySector) ELSE f1
    IN  IF Truthy(searchParams, "prediction") /\ searchParams["prediction"] # StrAll
        THEN Filter(f2, byPrediction) ELSE f2

\* whether filteredData is still mockStockData itself when it is sorted
RemoteAliased(searchParams) ==
    /\ ~Truthy(searchParams, "search")
    /\ ~(Truthy(searchParams, "sector") /\ searchParams["sector"] # StrAllSectors)
    /\ ~(Truthy(searchParams, "prediction") /\ searchParams["prediction"] # StrAll)

\* a comparator call that throws: a dotted sortBy whose parent is no field of
\* the record (a[parent] is undefined); sort calls it once there are two elements
RemoteThrows(filtered, sortBy) ==
    IsDotted(sortBy) /\ sortBy[1] # "prediction" /\ Len(filtered) >= 2

\* the catch block answers with the pagination of an empty result
GETErrorWithPagination(mock, searchParams) ==
    LET page == ParseInt(GetOr(searchParams, "page", StrOne))
        pageSize == ParseInt(GetOr(searchParams, "pageSize", StrTwentyFive))
        sortBy == GetOr(searchParams, "sortBy", <<"symbol">>)
        sortOrder == GetOr(searchParams, "sortOrder", StrAsc)
        filteredData == RemoteFiltered(mock, searchParams)
        Cmp(a, b) == RemoteCompare(a, b, sortBy, sortOrder)
        sorted == ArraySort(filteredData, Cmp)
        total == Len(sorted)
        totalPages == CeilDiv(total, pageSize)
        startIndex == (page - 1) * pageSize
        endIndex == startIndex + pageSize
    IN  IF RemoteThrows(filteredData, sortBy)
        THEN [status |-> 500,
              body |-> [data |-> <<>>, success |-> FALSE,
                        message |-> "Internal server error",
                        pagination |-> Some([page |-> page, pageSize |-> pageSize,
                                             total |-> 0, totalPages |-> 0])],
              mock |-> mock]
        ELSE [status |-> 200,
              body |-> [data |-> Slice(sorted, startIndex, endIndex),
                        success |-> TRUE, message |-> "",
                        pagination |-> Some([page |-> page, pageSize |-> pageSize,
                                             total |-> total, totalPages |-> totalPages])],
              mock |-> IF RemoteAliased(searchParams) THEN sorted ELSE mock]

\* the handler: the JSON response, and mockStockData afterwards
GET(mock, searchParams) ==
    LET page == ParseInt(GetOr(searchParams, "page", StrOne))
        pageSize == ParseInt(GetOr(searchParams, "pageSize", StrTwentyFive))
        sortBy == GetOr(searchParams, "sortBy", <<"symbol">>)
        sortOrder == GetOr(searchParams, "sortOrder", StrAsc)
        filteredData == RemoteFiltered(mock, searchParams)
        Cmp(a, b) == RemoteCompare(a, b, sortBy, sortOrder)
        sorted == ArraySort(filteredData, Cmp)
        total == Len(sorted)
        totalPages == CeilDiv(total, pageSize)
        startIndex == (page - 1) * pageSize
        endIndex == startIndex + pageSize
    IN  IF RemoteThrows(filteredData, sortBy)
        THEN [status |-> 500,
              body |-> [data |-> <<>>, success |-> FALSE,
                        message |-> "Internal server error", pagination |-> None],
              mock |-> mock]
        ELSE [status |-> 200,
              body |-> [data |-> Slice(sorted, startIndex, endIndex),
                        success |-> TRUE, message |-> "",
                        pagination |-> Some([page |-> page, pageSize |-> pageSize,
                                             total |-> total, totalPages |-> totalPages])],
              mock |-> IF RemoteAliased(searchParams) THEN sorted ELSE mock]

-----------------------------------------------------------------------------
(* PaginationControls *)

\* const totalPages = Math.ceil(total / pageSize)
ControlsTotalPages(pag) == CeilDiv(pag.total, pag.pageSize)

Max(a, b) == IF a > b THEN a ELSE b

\* the "ellipsis" entry of the page-number list; page numbers are 1 and above
Ellipsis == 0

MaxVisiblePages == 7

\* generatePageNumbers for the current page and totalPages
GeneratePageNumbers(page, totalPages) ==
    IF totalPages <= MaxVisiblePages
    THEN [i \in 1..totalPages |-> i]
    ELSE LET start == Max(2, page - 1)
             end == Min(totalPages - 1, page + 1)
         IN  <<1>>
             \o (IF page > 4 THEN <<Ellipsis>> ELSE <<>>)
             \o [i \in 1..(end - start + 1) |-> start + i - 1]
             \o (IF page < totalPages - 3 THEN <<Ellipsis>> ELSE <<>>)
             \o (IF totalPages > 1 THEN <<totalPages>> ELSE <<>>)

\* const startItem = (page - 1) * pageSize + 1
StartItem(pag) == (pag.page - 1) * pag.pageSize + 1

\* const endItem = Math.min(page * pageSize, total)
EndItem(pag) == Min(pag.page * pag.pageSize, pag.total)

-----------------------------------------------------------------------------
(* The query engine on its own: a query computed locally and remotely       *)

\* the request useStocks makes for a query: it passes filters, sort and pagination
RequestOf(q) ==
    Serialize(q.filters, Some(q.sort), Some([page |-> q.page, pageSize |-> q.pageSize]))

NoQuery ==
    [filters |-> None, sort |-> [field |-> <<"symbol">>, direction |-> StrAsc],
     page |-> 1, pageSize |-> 1]

HookIdle ==
    /\ options = [filters |-> None, sort |-> None, pagination |-> None, enabled |-> TRUE]
    /\ data = <<>>
    /\ loading = FALSE
    /\ error = Null
    /\ pagination = [page |-> 1, pageSize |-> 25, total |-> 0]
    /\ inflight = {}
    /\ issued = 0
    /\ shown = 0
    /\ last = [op |-> "init"]

\* no comparison made
CompareIdle == compared = [field |-> <<>>]

\* PaginationControls not rendered
ControlsIdle ==
    controls = [pagination |-> [page |-> 1, pageSize |-> 25, total |-> 0],
                pageNumbers |-> None]

\* StockDataTable as constructed: the useState initial values, nothing rendered
TableIdle ==
    /\ tableFilters = Some(DefaultFilters)
    /\ sortOptions = [field |-> <<"symbol">>, direction |-> StrAsc]
    /\ tablePagination = [page |-> 1, pageSize |-> 25, total |-> 0]
    /\ syncedTotal = None
    /\ view = None
    /\ requestedPage = 1

\* the result of a local computation, with the array it ran on
LocalResult(mock, q) ==
    LET r == LocalFallback(mock, q.filters, q.sort, q.page, q.pageSize)
    IN  [q |-> q, on |-> mock, data |-> r.paginatedData, total |-> r.totalFiltered,
         totalPages |-> ControlsTotalPages([page |-> q.page, pageSize |-> q.pageSize,
                                            total |-> r.totalFiltered]),
         sorted |-> LocalSorted(mock, q.filters, q.sort)]

\* the result of a remote computation, with the array it ran on
RemoteResult(mock, q) ==
    LET r == GET(mock, RequestOf(q))
    IN  [q |-> q, on |-> mock, request |-> RequestOf(q), status |-> r.status,
         body |-> r.body]

Remember(kind, q, out) ==
    probeOut' = IF probeOut = None /\ probe = [kind |-> kind, q |-> q]
                THEN Some(out) ELSE probeOut

\* StockDataTable computes the fallback page for props and state q
LocalQuery(q) ==
    /\ mockStockData' = LocalFallback(mockStockData, q.filters, q.sort, q.page, q.pageSize).mock
    /\ localOut' = Some(LocalResult(mockStockData, q))
    /\ Remember("local", q, LocalResult(mockStockData, q))
    /\ UNCHANGED <<loaded, query, remoteOut, probe, hookVars, tableVars, compareVars, controlsVars>>

\* the route handler answers the request getStocks builds for q
RemoteQuery(q) ==
    /\ mockStockData' = GET(mockStockData, RequestOf(q)).mock
    /\ remoteOut' = Some(RemoteResult(mockStockData, q))
    /\ Remember("remote", q, RemoteResult(mockStockData, q))
    /\ UNCHANGED <<loaded, query, localOut, probe, hookVars, tableVars, compareVars, controlsVars>>

\* one query, drawn at the start, computed by either implementation
QueryInit ==
    /\ mockStockData \in Datasets
    /\ loaded = mockStockData
    /\ query \in Queries
    /\ localOut = None
    /\ remoteOut = None
    /\ probe = [kind |-> "none", q |-> NoQuery]
    /\ probeOut = None
    /\ HookIdle
    /\ TableIdle
    /\ CompareIdle
    /\ ControlsIdle

QueryNext ==
    \/ LocalQuery(query)
    \/ RemoteQuery(query)

SpecQuery == QueryInit /\ [][QueryNext]_vars

\* the route handler alone, on the requests of any client: sortBy may name a
\* dotted field whose parent is no field of a record
HandlerSortFields == { <<"symbol">>, <<"prediction", "confidence">>, <<"meta", "rank">> }

\* filters that leave three records, two, one and none
HandlerFilterProps ==
    { None,
      Some([DefaultFilters EXCEPT !.sector = StrTech]),
      Some([DefaultFilters EXCEPT !.search = StrAAPL]),
      Some([DefaultFilters EXCEPT !.sector = StrEnergy, !.prediction = StrUp]) }

HandlerQueries ==
    [filters : HandlerFilterProps,
     sort : [field : HandlerSortFields, direction : {StrAsc, StrDesc}],
     page : 1..MaxPage, pageSize : PageSizes]

HandlerInit ==
    /\ mockStockData \in Datasets
    /\ loaded = mockStockData
    /\ query \in HandlerQueries
    /\ localOut = None
    /\ remoteOut = None
    /\ probe = [kind |-> "none", q |-> NoQuery]
    /\ probeOut = None
    /\ HookIdle
    /\ TableIdle
    /\ CompareIdle
    /\ ControlsIdle

HandlerNext == RemoteQuery(query)

SpecHandler == HandlerInit /\ [][HandlerNext]_vars

-----------------------------------------------------------------------------
(* Sequences of queries over the one shared array *)

TechBySector ==
    [filters |-> Some([DefaultFilters EXCEPT !.sector = StrTech]),
     sort |-> [field |-> <<"sector">>, direction |-> StrAsc], page |-> 1, pageSize |-> 2]

\* the queries whose first result is remembered
ProbeQueries == { [kind |-> k, q |-> TechBySector] : k \in {"local", "remote"} }

ReplayQueries ==
    { TechBySector,
      [filters |-> None, sort |-> [field |-> <<"symbol">>, direction |-> StrDesc],
       page |-> 1, pageSize |-> 2],
      [filters |-> Some(DefaultFilters),
       sort |-> [field |-> <<"currentPrice">>, direction |-> StrAsc],
       page |-> 1, pageSize |-> 2] }

ReplayInit ==
    /\ mockStockData \in Datasets
    /\ loaded = mockStockData
    /\ query = NoQuery
    /\ localOut = None
    /\ remoteOut = None
    /\ probe \in ProbeQueries
    /\ probeOut = None
    /\ HookIdle
    /\ TableIdle
    /\ CompareIdle
    /\ ControlsIdle

ReplayNext ==
    \/ \E q \in ReplayQueries : LocalQuery(q)
    \/ \E q \in ReplayQueries : RemoteQuery(q)

SpecReplay == ReplayInit /\ [][ReplayNext]_vars

-----------------------------------------------------------------------------
(* lib/api.ts: apiRequest and handleApiError *)

HttpText(status) ==
    CASE status = 400 -> "HTTP 400" [] status = 401 -> "HTTP 401"
      [] status = 403 -> "HTTP 403" [] status = 404 -> "HTTP 404"
      [] status = 429 -> "HTTP 429" [] status = 500 -> "HTTP 500"
      [] status = 503 -> "HTTP 503" [] OTHER -> "HTTP"

\* what fetch and response.json() give apiRequest:
\*   kind "ok":      a 2xx response whose body parses to an envelope
\*   kind "http":    a non-2xx response; message is errorData.message ("" when the
\*                   body has none or does not parse)
\*   kind "network": fetch rejects, or a 2xx body does not parse
\* the result: the envelope returned, or the ApiError thrown
ApiRequest(raw) ==
    IF raw.kind = "ok" THEN [ok |-> TRUE, null |-> FALSE, value |-> raw.body]
    ELSE IF raw.kind = "null" THEN [ok |-> TRUE, null |-> TRUE]
    ELSE IF raw.kind = "http"
    THEN [ok |-> FALSE,
          err |-> [api |-> TRUE,
                   message |-> IF raw.message # "" THEN raw.message ELSE HttpText(raw.status),
                   status |-> raw.status]]
    ELSE [ok |-> FALSE, err |-> [api |-> TRUE, message |-> raw.message, status |-> 0]]

\* the message of the error, whatever its status
HandleApiErrorMessage(err) == err.message

\* err.api: err instanceof ApiError
HandleApiError(err) ==
    IF ~err.api THEN "Network error. Please check your connection and try again."
    ELSE
    CASE err.status = 400 -> "Invalid request. Please check your input."
      [] err.status = 401 -> "Authentication required. Please log in."
      [] err.status = 403 -> "Access denied. You don't have permission for this action."
      [] err.status = 404 -> "Data not found. The requested resource doesn't exist."
      [] err.status = 429 -> "Too many requests. Please try again later."
      [] err.status = 500 -> "Server error. Please try again later."
      [] OTHER -> IF err.message # "" THEN err.message ELSE "An unexpected error occurred."

-----------------------------------------------------------------------------
(* hooks/use-stocks.ts: useStocks, called by a component that passes options *)

MaxRequests == 3

\* the options of a first render, and options that differ from them in one of
\* pagination.page, pagination.pageSize, filters and sort
OptionPoints ==
    LET base == [filters |-> Some(DefaultFilters),
                 sort |-> Some([field |-> <<"symbol">>, direction |-> StrAsc]),
                 pagination |-> Some([page |-> 1, pageSize |-> 2])]
    IN  { base,
          [base EXCEPT !.pagination = Some([page |-> 2, pageSize |-> 2])],
          [base EXCEPT !.pagination = Some([page |-> 1, pageSize |-> 1])],
          [base EXCEPT !.filters = Some([DefaultFilters EXCEPT !.sector = StrTech])],
          [base EXCEPT !.sort = Some([field |-> <<"symbol">>, direction |-> StrDesc])] }

\* each of them enabled, and the first of them disabled
TriggerOptionValues ==
    { [filters |-> p.filters, sort |-> p.sort, pagination |-> p.pagination, enabled |-> e] :
          p \in OptionPoints, e \in {TRUE} }
    \cup { [filters |-> Some(DefaultFilters),
             sort |-> Some([field |-> <<"symbol">>, direction |-> StrAsc]),
             pagination |-> Some([page |-> 1, pageSize |-> 2]),
             enabled |-> FALSE] }

OptionValues ==
    [filters : {Some(DefaultFilters)},
     sort : {Some([field |-> <<"symbol">>, direction |-> StrAsc])},
     pagination : {Some([page |-> 1, pageSize |-> 2]), Some([page |-> 2, pageSize |-> 2])},
     enabled : BOOLEAN]

\* a response body that reports failure inside a 2xx response
NonSuccessBody ==
    [data |-> <<>>, success |-> FALSE, message |-> "Upstream unavailable", pagination |-> None]

\* the answer of the route handler to the request r
HandlerAnswer(mock, r) ==
    LET res == GET(mock, Serialize(r.filters, r.sort, r.pagination))
    IN  IF res.status = 200
        THEN [kind |-> "ok", body |-> res.body, mock |-> res.mock]
        ELSE [kind |-> "http", status |-> res.status, message |-> res.body.message,
              mock |-> res.mock]

\* a success envelope without the optional pagination
BareSuccessBody ==
    [data |-> <<StockM>>, success |-> TRUE, message |-> "", pagination |-> None]

\* what the network can give a request: the route handler's answer; from the
\* configured backend a 2xx non-success envelope, a success envelope without
\* pagination, the JSON text null; an error status; no response
Outcomes(mock, r) ==
        { HandlerAnswer(mock, r),
          [kind |-> "ok", body |-> NonSuccessBody, mock |-> mock],
          [kind |-> "ok", body |-> BareSuccessBody, mock |-> mock],
          [kind |-> "null", mock |-> mock],
          [kind |-> "http", status |-> 500, message |-> "Internal server error", mock |-> mock],
          [kind |-> "http", status |-> 503, message |-> "", mock |-> mock],
          [kind |-> "network", message |-> "Failed to fetch", mock |-> mock] }

HookInit ==
    /\ mockStockData \in Datasets
    /\ loaded = mockStockData
    /\ query = NoQuery
    /\ localOut = None
    /\ remoteOut = None
    /\ probe = [kind |-> "none", q |-> NoQuery]
    /\ probeOut = None
    /\ options \in OptionValues
    /\ data = <<>>
    /\ loading = FALSE
    /\ error = Null
    /\ pagination = [page |-> Get(options.pagination).page,
                     pageSize |-> Get(options.pagination).pageSize, total |-> 0]
    /\ inflight = {}
    /\ issued = 0
    /\ shown = 0
    /\ last = [op |-> "init"]
    /\ TableIdle
    /\ CompareIdle
    /\ ControlsIdle

\* no request goes out while another is in flight
FetchStocksWhenIdle(opts) ==
    IF ~opts.enabled \/ inflight # {}
    THEN UNCHANGED <<data, loading, error, pagination, inflight, issued, shown>>
    ELSE /\ loading' = TRUE
         /\ error' = Null
         /\ issued' = issued + 1
         /\ inflight' = inflight \cup {[id |-> issued + 1, filters |-> opts.filters,
                                        sort |-> opts.sort, pagination |-> opts.pagination]}
         /\ UNCHANGED <<data, pagination, shown>>

\* the enabled flag is not read
FetchStocksIgnoresEnabled(opts) ==
    /\ loading' = TRUE
    /\ error' = Null
    /\ issued' = issued + 1
    /\ inflight' = inflight \cup {[id |-> issued + 1, filters |-> opts.filters,
                                   sort |-> opts.sort, pagination |-> opts.pagination]}
    /\ UNCHANGED <<data, pagination, shown>>

\* data is cleared when the request starts
FetchStocksClearsData(opts) ==
    IF ~opts.enabled
    THEN UNCHANGED <<data, loading, error, pagination, inflight, issued, shown>>
    ELSE /\ loading' = TRUE
         /\ error' = Null
         /\ data' = <<>>
         /\ issued' = issued + 1
         /\ inflight' = inflight \cup {[id |-> issued + 1, filters |-> opts.filters,
                                        sort |-> opts.sort, pagination |-> opts.pagination]}
         /\ UNCHANGED <<pagination, shown>>

\* fetchStocks up to its await, as built for the options opts: nothing when
\* disabled; else loading and error are set and the request goes out
FetchStocks(opts) ==
    IF ~opts.enabled
    THEN UNCHANGED <<data, loading, error, pagination, inflight, issued, shown>>
    ELSE /\ loading' = TRUE
         /\ error' = Null
         /\ issued' = issued + 1
         /\ inflight' = inflight \cup {[id |-> issued + 1, filters |-> opts.filters,
                                        sort |-> opts.sort, pagination |-> opts.pagination]}
         /\ UNCHANGED <<data, pagination, shown>>

\* the effect after the first render
Mount ==
    /\ last.op = "init"
    /\ FetchStocks(options)
    /\ last' = [op |-> "mount", hadError |-> FALSE, after |-> 0]
    /\ UNCHANGED <<mockStockData, loaded, queryVars, tableVars, compareVars, controlsVars, options>>

\* the component renders with other options: fetchStocks is rebuilt and the
\* effect calls it
ChangeOptions(opts) ==
    /\ last.op # "init"
    /\ issued < MaxRequests
    /\ opts # options
    /\ options' = opts
    /\ FetchStocks(opts)
    /\ last' = [op |-> "change", hadError |-> error # Null, after |-> 0,
                changed |-> {k \in {"filters", "sort", "pagination", "enabled"} :
                                 opts[k] # options[k]}]
    /\ UNCHANGED <<mockStockData, loaded, queryVars, tableVars, compareVars, controlsVars>>

\* refetch(): the fetchStocks of the current render
Refetch ==
    /\ last.op # "init"
    /\ issued < MaxRequests
    /\ FetchStocks(options)
    /\ last' = [op |-> "refetch", hadError |-> error # Null,
                after |-> IF last.op = "settle" THEN last.status ELSE 0]
    /\ UNCHANGED <<mockStockData, loaded, queryVars, tableVars, compareVars, controlsVars, options>>

\* what the try block throws: the ApiError of apiRequest, or the TypeError of
\* response.data when the body is null
TryBlock(result) ==
    IF ~result.ok THEN [threw |-> TRUE, err |-> result.err]
    ELSE IF result.null
    THEN [threw |-> TRUE,
          err |-> [api |-> FALSE, message |-> "Cannot read properties of null", status |-> 0]]
    ELSE [threw |-> FALSE]

\* no catch clause: what the try block throws rejects the promise
PromiseWithoutCatch(result) ==
    IF TryBlock(result).threw THEN "rejected" ELSE "fulfilled"

\* the promise fetchStocks returns: the catch clause takes every error, and
\* neither it nor the finally clause throws
FetchStocksPromise(result) ==
    IF TryBlock(result).threw
    THEN "fulfilled"    \* caught: the catch block runs to its end
    ELSE "fulfilled"

\* fetchStocks after its await, for the request r and what apiRequest made of
\* the network's answer: try, catch, finally
Continue(r, result) ==
    /\ IF ~TryBlock(result).threw
       THEN /\ data' = result.value.data
            /\ pagination' =
                   IF IsSome(result.value.pagination)
                   THEN [page |-> Get(result.value.pagination).page,
                         pageSize |-> Get(result.value.pagination).pageSize,
                         total |-> Get(result.value.pagination).total]
                   ELSE pagination
            /\ error' = error
       ELSE /\ error' = HandleApiError(TryBlock(result).err)
            /\ UNCHANGED <<data, pagination>>
    /\ loading' = FALSE
    /\ shown' = r.id

\* a request settles
Settle(r, raw) ==
    /\ r \in inflight
    /\ inflight' = inflight \ {r}
    /\ mockStockData' = raw.mock
    /\ Continue(r, ApiRequest(raw))
    /\ last' = [op |-> "settle", id |-> r.id, kind |-> raw.kind,
                status |-> IF raw.kind = "http" THEN raw.status
                           ELSE IF raw.kind \in {"ok", "null"} THEN 200 ELSE 0,
                success |-> IF raw.kind = "ok" THEN raw.body.success ELSE FALSE,
                request |-> r,
                promise |-> FetchStocksPromise(ApiRequest(raw))]
    /\ UNCHANGED <<loaded, queryVars, tableVars, compareVars, controlsVars, options, issued>>

Next ==
    \/ Mount
    \/ \E opts \in OptionValues : ChangeOptions(opts)
    \/ Refetch
    \/ \E r \in inflight : \E raw \in Outcomes(mockStockData, r) : Settle(r, raw)

Spec == HookInit /\ [][Next]_vars

\* useStocks over the route handler alone, the options changing in each of
\* filters, sort, page, pageSize and enabled
TriggerInit ==
    /\ mockStockData \in Datasets
    /\ loaded = mockStockData
    /\ query = NoQuery
    /\ localOut = None
    /\ remoteOut = None
    /\ probe = [kind |-> "none", q |-> NoQuery]
    /\ probeOut = None
    /\ options \in TriggerOptionValues
    /\ data = <<>>
    /\ loading = FALSE
    /\ error = Null
    /\ pagination = [page |-> Get(options.pagination).page,
                     pageSize |-> Get(options.pagination).pageSize, total |-> 0]
    /\ inflight = {}
    /\ issued = 0
    /\ shown = 0
    /\ last = [op |-> "init"]
    /\ TableIdle
    /\ CompareIdle
    /\ ControlsIdle

TriggerNext ==
    \/ Mount
    \/ \E opts \in TriggerOptionValues : ChangeOptions(opts)
    \/ Refetch
    \/ \E r \in inflight : Settle(r, HandlerAnswer(mockStockData, r))

SpecTrigger == TriggerInit /\ [][TriggerNext]_vars

-----------------------------------------------------------------------------
(* StockDataTable: state, render and handlers, while the hook has no data   *)

\* the filters HomePage passes
TableFilterValues ==
    { DefaultFilters,
      [DefaultFilters EXCEPT !.search = StrAPP],
      [DefaultFilters EXCEPT !.sector = StrTech],
      [DefaultFilters EXCEPT !.search = StrAPP, !.sector = StrTech],
      [DefaultFilters EXCEPT !.sector = StrEnergy, !.prediction = StrUp] }

\* columns with a SortButton
TableSortFields == { <<"symbol">>, <<"currentPrice">>, <<"prediction", "confidence">> }

\* the sizes handlePageSizeChange is given: the initial 25, and 1 and 2 for the
\* sizes below the length of the modelled arrays
TablePageSizes == {1, 2, 25}

\* the total is stored and the page is left as it is
SyncTotalKeepsPage(prev, totalFiltered) == [prev EXCEPT !.total = totalFiltered]

\* the updater of the total-sync useMemo
SyncTotal(prev, totalFiltered) ==
    [prev EXCEPT !.total = totalFiltered,
                 !.page = IF prev.page > CeilDiv(totalFiltered, prev.pageSize)
                          THEN 1 ELSE prev.page]

\* one render of StockDataTable to the commit: the paginatedData useMemo, the
\* total-sync useMemo when totalFiltered differs from the one it last ran for,
\* and, the state then being updated during render, the render again
RenderTable(mock, apiData, err, filters, sort, pag, synced) ==
    LET first == PaginatedData(apiData, err, mock, filters, sort, pag.page, pag.pageSize)
        pag1 == IF synced # Some(first.totalFiltered)
                THEN SyncTotal(pag, first.totalFiltered) ELSE pag
        again == IF pag1.page # pag.page
                 THEN PaginatedData(apiData, err, first.mock, filters, sort,
                                    pag1.page, pag1.pageSize)
                 ELSE first
    IN  [pagination |-> pag1,
         view |-> [paginatedData |-> again.paginatedData,
                   totalFiltered |-> again.totalFiltered],
         synced |-> Some(first.totalFiltered),
         mock |-> again.mock]

\* the state after a render with the given props and state
Rendered(filters, sort, pag) ==
    \E r \in {RenderTable(mockStockData, data, error, filters, sort, pag, syncedTotal)} :
        /\ tableFilters' = filters
        /\ sortOptions' = sort
        /\ tablePagination' = r.pagination
        /\ view' = Some(r.view)
        /\ syncedTotal' = r.synced
        /\ mockStockData' = r.mock
        /\ UNCHANGED <<loaded, queryVars, hookVars, compareVars, controlsVars>>

\* the first render
TableMount ==
    /\ view = None
    /\ Rendered(tableFilters, sortOptions, tablePagination)
    /\ UNCHANGED requestedPage

\* HomePage's setFilters, through StockFilters' onFiltersChange
SetFilters(f) ==
    /\ view # None
    /\ Some(f) # tableFilters
    /\ Rendered(Some(f), sortOptions, tablePagination)
    /\ UNCHANGED requestedPage

\* a click on another field keeps the direction
HandleSortKeepsDirection(field) ==
    /\ view # None
    /\ Rendered(tableFilters,
                [field |-> field,
                 direction |-> IF sortOptions.field = field
                               THEN (IF sortOptions.direction = StrAsc THEN StrDesc ELSE StrAsc)
                               ELSE sortOptions.direction],
                [tablePagination EXCEPT !.page = 1])
    /\ requestedPage' = 1

HandleSort(field) ==
    /\ view # None
    /\ Rendered(tableFilters,
                [field |-> field,
                 direction |-> IF sortOptions.field = field /\ sortOptions.direction = StrAsc
                               THEN StrDesc ELSE StrAsc],
                [tablePagination EXCEPT !.page = 1])
    /\ requestedPage' = 1

\* PaginationControls is rendered when totalFiltered > 0, its navigation when
\* there is more than one page; a link, Previous and Next give a page in 1..totalPages
HandlePageChange(page) ==
    /\ view # None
    /\ Get(view).totalFiltered > 0
    /\ ControlsTotalPages([tablePagination EXCEPT !.total = Get(view).totalFiltered]) > 1
    /\ page \in 1..ControlsTotalPages([tablePagination EXCEPT !.total = Get(view).totalFiltered])
    /\ Rendered(tableFilters, sortOptions, [tablePagination EXCEPT !.page = page])
    /\ requestedPage' = page

\* the page is not reset
HandlePageSizeChangeKeepsPage(pageSize) ==
    /\ view # None
    /\ Get(view).totalFiltered > 0
    /\ Rendered(tableFilters, sortOptions, [tablePagination EXCEPT !.pageSize = pageSize])
    /\ requestedPage' = tablePagination.page

HandlePageSizeChange(pageSize) ==
    /\ view # None
    /\ Get(view).totalFiltered > 0
    /\ Rendered(tableFilters, sortOptions,
                [tablePagination EXCEPT !.pageSize = pageSize, !.page = 1])
    /\ requestedPage' = 1

TableInit ==
    /\ mockStockData \in Datasets
    /\ loaded = mockStockData
    /\ query = NoQuery
    /\ localOut = None
    /\ remoteOut = None
    /\ probe = [kind |-> "none", q |-> NoQuery]
    /\ probeOut = None
    /\ HookIdle
    /\ TableIdle
    /\ CompareIdle
    /\ ControlsIdle

TableNext ==
    \/ TableMount
    \/ \E f \in TableFilterValues : SetFilters(f)
    \/ \E field \in TableSortFields : HandleSort(field)
    \/ \E page \in 1..MaxPage : HandlePageChange(page)
    \/ \E pageSize \in TablePageSizes : HandlePageSizeChange(pageSize)

SpecTable == TableInit /\ [][TableNext]_vars

\* what useStocks returns to the table: the data of a response, or none, and
\* an error message, or none
ApiDataValues == { <<>>, <<StockA>>, <<StockX, StockM>> }

ApiErrorValues == { Null, "Server error. Please try again later." }

\* useStocks returns other data or another error, and the table renders
HookReturns(apiData, err) ==
    /\ view # None
    /\ <<apiData, err>> # <<data, error>>
    /\ data' = apiData
    /\ error' = err
    /\ \E r \in {RenderTable(mockStockData, apiData, err, tableFilters, sortOptions,
                             tablePagination, syncedTotal)} :
           /\ tablePagination' = r.pagination
           /\ view' = Some(r.view)
           /\ syncedTotal' = r.synced
           /\ mockStockData' = r.mock
    /\ UNCHANGED <<loaded, queryVars, options, loading, pagination, inflight, issued,
                   shown, last, tableFilters, sortOptions, requestedPage, compareVars, controlsVars>>

TableRemoteNext ==
    \/ TableNext
    \/ \E apiData \in ApiDataValues : \E err \in ApiErrorValues : HookReturns(apiData, err)

SpecTableRemote == TableInit /\ [][TableRemoteNext]_vars

-----------------------------------------------------------------------------
(* StockDataTable wired to useStocks: the table calls the hook in every      *)
(* render with a new pagination object, so fetchStocks is rebuilt in every   *)
(* render and the effect calls it after every commit                         *)

MaxWiredRequests == 6

\* the options literal of the useStocks call
WiredOptions(filters, sort, pag) ==
    [filters |-> filters, sort |-> Some(sort),
     pagination |-> Some([page |-> pag.page, pageSize |-> pag.pageSize]),
     enabled |-> TRUE]

\* the request fetchStocks awaits for the options opts
RequestFor(id, opts) ==
    [id |-> id, filters |-> opts.filters, sort |-> opts.sort, pagination |-> opts.pagination]

\* a state update made by fetchStocks in an effect awaits its render
Pending == last.op # "init" /\ last.pending

\* one render of the table with the hook's state (apiData, err, ld), to the
\* commit, and the effect of that commit: fetchStocks, built anew for the
\* options of this render, sets loading and error and issues its request
Commit(mock, apiData, err, filters, sort, pag, synced, reqs) ==
    \E r \in {RenderTable(mock, apiData, err, filters, sort, pag, synced)} :
        /\ issued < MaxWiredRequests
        /\ tableFilters' = filters
        /\ sortOptions' = sort
        /\ tablePagination' = r.pagination
        /\ view' = Some(r.view)
        /\ syncedTotal' = r.synced
        /\ mockStockData' = r.mock
        /\ options' = WiredOptions(filters, sort, r.pagination)
        /\ inflight' = reqs \cup {RequestFor(issued + 1,
                                             WiredOptions(filters, sort, r.pagination))}
        /\ issued' = issued + 1
        /\ loading' = TRUE
        /\ error' = Null
        /\ UNCHANGED <<loaded, queryVars, compareVars, controlsVars>>

\* a state update of the table or of HomePage: the render and its effect; the
\* effect's fetchStocks changes the hook's state, and so asks for another
\* render, when loading was false or an error was shown
WiredUpdate(filters, sort, pag) ==
    /\ view # None
    /\ ~Pending
    /\ Commit(mockStockData, data, error, filters, sort, pag, syncedTotal, inflight)
    /\ last' = [op |-> "render", hadError |-> error # Null, after |-> 0,
                pending |-> (~loading \/ error # Null)]
    /\ UNCHANGED <<data, pagination, shown>>

\* the first render and its effect
WiredMount ==
    /\ view = None
    /\ Commit(mockStockData, data, error, tableFilters, sortOptions, tablePagination,
              syncedTotal, inflight)
    /\ last' = [op |-> "mount", hadError |-> FALSE, after |-> 0,
                pending |-> (~loading \/ error # Null)]
    /\ UNCHANGED <<data, pagination, shown, requestedPage>>

\* the render asked for by the state update of an effect's fetchStocks, and
\* the effect of that render: fetchStocks again, which changes nothing
WiredRerender ==
    /\ Pending
    /\ Commit(mockStockData, data, error, tableFilters, sortOptions, tablePagination,
              syncedTotal, inflight)
    /\ last' = [op |-> "rerender", hadError |-> FALSE, after |-> 0,
                pending |-> (~loading \/ error # Null)]
    /\ UNCHANGED <<data, pagination, shown, requestedPage>>

WiredSetFilters(f) ==
    /\ Some(f) # tableFilters
    /\ WiredUpdate(Some(f), sortOptions, tablePagination)
    /\ UNCHANGED requestedPage

WiredHandleSort(field) ==
    /\ WiredUpdate(tableFilters,
                   [field |-> field,
                    direction |-> IF sortOptions.field = field /\ sortOptions.direction = StrAsc
                                  THEN StrDesc ELSE StrAsc],
                   [tablePagination EXCEPT !.page = 1])
    /\ requestedPage' = 1

WiredHandlePageChange(page) ==
    /\ view # None
    /\ Get(view).totalFiltered > 0
    /\ ControlsTotalPages([tablePagination EXCEPT !.total = Get(view).totalFiltered]) > 1
    /\ page \in 1..ControlsTotalPages([tablePagination EXCEPT !.total = Get(view).totalFiltered])
    /\ WiredUpdate(tableFilters, sortOptions, [tablePagination EXCEPT !.page = page])
    /\ requestedPage' = page

WiredHandlePageSizeChange(pageSize) ==
    /\ view # None
    /\ Get(view).totalFiltered > 0
    /\ WiredUpdate(tableFilters, sortOptions,
                   [tablePagination EXCEPT !.pageSize = pageSize, !.page = 1])
    /\ requestedPage' = 1

\* a request settles: fetchStocks continues after its await (try, catch,
\* finally), the table renders with the hook's new state, and the effect of
\* that render calls fetchStocks
WiredSettle(r, raw) ==
    /\ r \in inflight
    /\ view # None
    /\ ~Pending
    /\ \E t \in {TryBlock(ApiRequest(raw))} :
       \E value \in {IF t.threw THEN [data |-> data, pagination |-> None]
                      ELSE ApiRequest(raw).value} :
           /\ Commit(raw.mock, value.data,
                     IF t.threw THEN HandleApiError(t.err) ELSE error,
                     tableFilters, sortOptions, tablePagination, syncedTotal,
                     inflight \ {r})
           /\ data' = value.data
           /\ pagination' = IF IsSome(value.pagination)
                             THEN [page |-> Get(value.pagination).page,
                                   pageSize |-> Get(value.pagination).pageSize,
                                   total |-> Get(value.pagination).total]
                             ELSE pagination
    /\ shown' = r.id
    /\ last' = [op |-> "settle", id |-> r.id, kind |-> raw.kind,
                status |-> IF raw.kind = "http" THEN raw.status
                           ELSE IF raw.kind \in {"ok", "null"} THEN 200 ELSE 0,
                success |-> IF raw.kind = "ok" THEN raw.body.success ELSE FALSE,
                request |-> r,
                promise |-> FetchStocksPromise(ApiRequest(raw)),
                pending |-> TRUE]
    /\ UNCHANGED requestedPage

\* the route handler's answer, or an error status from the backend
WiredOutcomes(mock, r) ==
    { HandlerAnswer(mock, r),
      [kind |-> "http", status |-> 500, message |-> "Internal server error", mock |-> mock] }

WiredFilterValues == { DefaultFilters, [DefaultFilters EXCEPT !.sector = StrTech] }

WiredSortFields == { <<"symbol">>, <<"currentPrice">> }

WiredPageSizes == {1, 2}

WiredNext ==
    \/ WiredMount
    \/ WiredRerender
    \/ \E f \in WiredFilterValues : WiredSetFilters(f)
    \/ \E field \in WiredSortFields : WiredHandleSort(field)
    \/ \E page \in 1..MaxPage : WiredHandlePageChange(page)
    \/ \E pageSize \in WiredPageSizes : WiredHandlePageSizeChange(pageSize)
    \/ \E r \in inflight : \E raw \in WiredOutcomes(mockStockData, r) : WiredSettle(r, raw)

SpecWired == TableInit /\ [][WiredNext]_vars

-----------------------------------------------------------------------------
(* The two sort callbacks on a pair of records *)

\* the local callback on (a, b) under asc and under desc
CompareLocal ==
    /\ compared.local = None
    /\ compared' =
           [compared EXCEPT !.local =
               Some([asc |-> LocalCompare(compared.a, compared.b,
                                          [field |-> compared.field, direction |-> StrAsc]),
                     desc |-> LocalCompare(compared.a, compared.b,
                                           [field |-> compared.field, direction |-> StrDesc])])]
    /\ UNCHANGED <<mockStockData, loaded, queryVars, hookVars, tableVars, controlsVars>>

\* the handler's callback on (a, b) under asc and under desc
CompareRemote ==
    /\ compared.remote = None
    /\ compared' =
           [compared EXCEPT !.remote =
               Some([asc |-> RemoteCompare(compared.a, compared.b, compared.field, StrAsc),
                     desc |-> RemoteCompare(compared.a, compared.b, compared.field, StrDesc)])]
    /\ UNCHANGED <<mockStockData, loaded, queryVars, hookVars, tableVars, controlsVars>>

CompareInit ==
    /\ mockStockData \in Datasets
    /\ loaded = mockStockData
    /\ query = NoQuery
    /\ localOut = None
    /\ remoteOut = None
    /\ probe = [kind |-> "none", q |-> NoQuery]
    /\ probeOut = None
    /\ HookIdle
    /\ TableIdle
    /\ \E i, j \in 1..Len(mockStockData) : \E field \in SortFields :
           compared = [a |-> mockStockData[i], b |-> mockStockData[j], field |-> field,
                       local |-> None, remote |-> None]
    /\ ControlsIdle

CompareNext == CompareLocal \/ CompareRemote

SpecCompare == CompareInit /\ [][CompareNext]_vars

-----------------------------------------------------------------------------
(* PaginationControls on its own: rendered with a pagination prop *)

MaxTotal == 12

\* the pagination props the table can pass: total > 0, and a page among the
\* pages of that total
ControlsProps ==
    { pag \in [page : 1..MaxTotal, pageSize : PageSizes, total : 1..MaxTotal] :
          pag.page <= ControlsTotalPages(pag) }

\* the component renders: the page-number list is generated
GeneratePages ==
    /\ controls.pageNumbers = None
    /\ controls' = [controls EXCEPT !.pageNumbers =
                        Some(GeneratePageNumbers(controls.pagination.page,
                                                 ControlsTotalPages(controls.pagination)))]
    /\ UNCHANGED <<mockStockData, loaded, queryVars, hookVars, tableVars, compareVars>>

ControlsInit ==
    /\ mockStockData \in Datasets
    /\ loaded = mockStockData
    /\ query = NoQuery
    /\ localOut = None
    /\ remoteOut = None
    /\ probe = [kind |-> "none", q |-> NoQuery]
    /\ probeOut = None
    /\ HookIdle
    /\ TableIdle
    /\ CompareIdle
    /\ controls \in [pagination : ControlsProps, pageNumbers : {None}]

ControlsNext == GeneratePages

SpecControls == ControlsInit /\ [][ControlsNext]_vars

-----------------------------------------------------------------------------
(* Properties of the query engine *)

Elems(seq) == {seq[i] : i \in 1..Len(seq)}

\* C2: for the same query on an identical array, the remote handler and the
\* local fallback return the same records in the same order and the same total.
C2_LocalRemoteAgree ==
    (/\ IsSome(localOut) /\ IsSome(remoteOut)
     /\ Get(localOut).q = Get(remoteOut).q
     /\ Get(localOut).on = Get(remoteOut).on)
    => /\ Get(remoteOut).body.success
       /\ Get(remoteOut).body.data = Get(localOut).data
       /\ Get(Get(remoteOut).body.pagination).total = Get(localOut).total

\* C3: after any sequence of queries mockStockData holds the records in the
\* order in which it was loaded.
C3_DatasetUnchanged == mockStockData = loaded

\* C4: a query run again, after any other queries, returns what its first run
\* returned: the same records in the same order.
C4_SameQuerySameResult ==
    /\ (probe.kind = "local" /\ IsSome(probeOut) /\ IsSome(localOut)
        /\ Get(localOut).q = probe.q)
       => Get(localOut).data = Get(probeOut).data
    /\ (probe.kind = "remote" /\ IsSome(probeOut) /\ IsSome(remoteOut)
        /\ Get(remoteOut).q = probe.q)
       => Get(remoteOut).body.data = Get(probeOut).body.data

\* C5: with filters given, the local filter keeps a record iff its search,
\* sector, prediction, price, change and confidence constraints all pass
\* (ranges inclusive at both bounds), so one failing constraint excludes it.
C5_LocalFilterConjunctive ==
    (IsSome(localOut) /\ IsSome(Get(localOut).q.filters))
    => LET out == Get(localOut)
           f == Get(out.q.filters)
       IN  /\ \A stock \in Elems(out.on) :
                  (stock \in Elems(out.sorted)) <=> PassesAll(stock, f)
           /\ out.total = Cardinality({stock \in Elems(out.on) : PassesAll(stock, f)})

\* C5 witness: a local result whose filter keeps a record exactly on a bound of
\* the price range and excludes another record
C5_Witness ==
    /\ IsSome(localOut) /\ IsSome(Get(localOut).q.filters)
    /\ \E stock \in Elems(Get(localOut).sorted) :
           stock.currentPrice = Get(Get(localOut).q.filters).priceRange.min
    /\ Get(localOut).total < Len(Get(localOut).on)

\* C6: a result holds only records whose lastUpdated lies within the date
\* range when the preset is not "all time" (and the local filter keeps every
\* record that passes the date range and the other constraints).
C6_DateRangeApplied ==
    /\ (IsSome(localOut) /\ IsSome(Get(localOut).q.filters))
       => \A stock \in Elems(Get(localOut).on) :
              (stock \in Elems(Get(localOut).sorted))
              <=> (PassesAll(stock, Get(Get(localOut).q.filters))
                   /\ DateOk(stock, Get(Get(localOut).q.filters)))
    /\ (IsSome(remoteOut) /\ IsSome(Get(remoteOut).q.filters))
       => \A stock \in Elems(Get(remoteOut).body.data) :
              DateOk(stock, Get(Get(remoteOut).q.filters))

\* tp is ceil(total / pageSize), and 0 when total is 0
IsCeil(tp, total, pageSize) ==
    /\ tp * pageSize >= total
    /\ (tp - 1) * pageSize < total
    /\ (total = 0 => tp = 0)

\* the constraints of a query that the answering filter stage evaluates
StagePasses(stock, filters, kind) ==
    IF ~IsSome(filters) THEN TRUE
    ELSE IF kind = "local" THEN PassesAll(stock, Get(filters))
    ELSE /\ SearchOk(stock, Get(filters)) /\ SectorOk(stock, Get(filters))
         /\ PredictionOk(stock, Get(filters))

C8_WitnessEmpty ==
    /\ IsSome(remoteOut)
    /\ Get(Get(remoteOut).body.pagination).total = 0
    /\ Get(Get(remoteOut).body.pagination).totalPages = 0

\* C18: on every pair of records and every sort field, each comparator returns
\* under desc the negation of what it returns under asc.
C18_DescNegatesAsc ==
    /\ (compared.field # <<>> /\ IsSome(compared.local))
       => Get(compared.local).desc = 0 - Get(compared.local).asc
    /\ (compared.field # <<>> /\ IsSome(compared.remote))
       => Get(compared.remote).desc = 0 - Get(compared.remote).asc

\* C18 witness: both comparators have run on two records whose names are in
\* one order as written and in the other order lower-cased, and return -1
\* under asc and 1 under desc
C18_Witness ==
    /\ compared.field = <<"name">>
    /\ compared.a = StockA /\ compared.b = StockX
    /\ IsSome(compared.local) /\ IsSome(compared.remote)
    /\ Get(compared.local).asc = 0 - 1 /\ Get(compared.local).desc = 1
    /\ Get(compared.remote).asc = 0 - 1 /\ Get(compared.remote).desc = 1

\* the key the specification orders by: the field of the record, or of its
\* prediction for a dotted field, lower-cased when it is a string
ResolvedKey(stock, field) ==
    LET value == IF Len(field) = 2 THEN stock.prediction[field[2]] ELSE stock[field[1]]
    IN  IF field[Len(field)] \in {"symbol", "name", "sector", "direction"}
        THEN ToLowerCase(value) ELSE value

\* seq is ordered by the resolved key of the sort: no record stands before
\* one whose key is smaller (asc) or greater (desc)
OrderedBy(seq, sort) ==
    \A i, j \in 1..Len(seq) :
        i < j => LET ki == ResolvedKey(seq[i], sort.field)
                     kj == ResolvedKey(seq[j], sort.field)
                 IN  IF sort.direction = StrAsc
                     THEN ~KeyLess(kj, ki, sort.field)
                     ELSE ~KeyLess(ki, kj, sort.field)

\* C19: the sorted output of the local computation, and the page the handler
\* returns, are ordered by the resolved key of the sort field: strings
\* lower-cased, numbers by magnitude, dotted fields through prediction.
C19_SortedByResolvedKey ==
    /\ IsSome(localOut) => OrderedBy(Get(localOut).sorted, Get(localOut).q.sort)
    /\ (IsSome(remoteOut) /\ Get(remoteOut).status = 200)
       => OrderedBy(Get(remoteOut).body.data, Get(remoteOut).q.sort)

\* C19 witness: the three records sorted by prediction.confidence desc come
\* out with confidences 90, 50, 10, in another order than they were in
C19_Witness ==
    /\ IsSome(localOut)
    /\ Get(localOut).q.sort = [field |-> <<"prediction", "confidence">>, direction |-> StrDesc]
    /\ Len(Get(localOut).sorted) = 3
    /\ [i \in 1..3 |-> Get(localOut).sorted[i].prediction.confidence] = <<90, 50, 10>>
    /\ [i \in 1..3 |-> Get(localOut).on[i].prediction.confidence] # <<90, 50, 10>>

\* the query of the scenario: search "AAPL" and nothing else
SearchAAPL == Some([DefaultFilters EXCEPT !.search = StrAAPL])

\* C20 as stated: search "AAPL" matches the record with symbol AAPL and the
\* record with symbol XYZ and name "Apple Inc".
C20_SearchMatchesBoth ==
    /\ (IsSome(localOut) /\ Get(localOut).q.filters = SearchAAPL)
       => {StockA, StockX} \subseteq Elems(Get(localOut).sorted)
    /\ (IsSome(remoteOut) /\ Get(remoteOut).q.filters = SearchAAPL)
       => Get(Get(remoteOut).body.pagination).total >= 2

\* C20: search "AAPL" matches the record with symbol AAPL and no other: "aapl"
\* is a substring of neither "xyz" nor "apple inc".
C20_SearchMatchesSymbolOnly ==
    /\ (IsSome(localOut) /\ Get(localOut).q.filters = SearchAAPL)
       => Get(localOut).sorted = <<StockA>>
    /\ (IsSome(remoteOut) /\ Get(remoteOut).q.filters = SearchAAPL)
       => /\ Get(Get(remoteOut).body.pagination).total = 1
          /\ Get(remoteOut).q.page = 1 => Get(remoteOut).body.data = <<StockA>>

\* C20 witness: both computations have answered the search for "AAPL" on an
\* array that holds AAPL and XYZ "Apple Inc", each with AAPL alone
C20_Witness ==
    /\ IsSome(localOut) /\ IsSome(remoteOut)
    /\ Get(localOut).q.filters = SearchAAPL /\ Get(remoteOut).q.filters = SearchAAPL
    /\ Get(localOut).q.page = 1
    /\ {StockA, StockX} \subseteq Elems(Get(localOut).on)
    /\ Get(localOut).data = <<StockA>> /\ Get(remoteOut).body.data = <<StockA>>

-----------------------------------------------------------------------------
(* Properties of StockDataTable's pagination *)

\* C7: the page shown is the slice of the requested page, and the page number
\* stays as requested: a page beyond the last page shows no rows and is kept.
C7_PageLeftAsRequested ==
    IsSome(view)
    => /\ tablePagination.page = requestedPage
       /\ Get(view).paginatedData =
              Slice(LocalSorted(mockStockData, tableFilters, sortOptions),
                    (requestedPage - 1) * tablePagination.pageSize,
                    requestedPage * tablePagination.pageSize)

\* C16: the rows shown are the data of useStocks when that is not empty and
\* error is null, and else the local filter, sort and slice of the bundled
\* array under the current filters, sort, page and pageSize.
C16_FallbackWhenEmptyOrError ==
    IsSome(view)
    => Get(view).paginatedData =
           IF data # <<>> /\ error = Null
           THEN data
           ELSE LocalFallback(mockStockData, tableFilters, sortOptions,
                              tablePagination.page, tablePagination.pageSize).paginatedData

\* C16 witness: useStocks holds data and an error, and the rows shown are the
\* local ones, which differ from the data
C16_Witness ==
    /\ IsSome(view)
    /\ data # <<>> /\ error # Null
    /\ Get(view).paginatedData # data /\ Get(view).paginatedData # <<>>

-----------------------------------------------------------------------------
(* Properties of useStocks *)

\* C1: once every issued request has settled, the state was written by the
\* request issued last, whatever the order in which the responses arrived.
C1_LatestRequestWins == (inflight = {} /\ issued >= 2) => shown = issued

\* C9: a request that is rejected, or resolves with success = false, leaves
\* error a message and data as it was.
C9_FailureSetsErrorKeepsData ==
    [][(last'.op = "settle" /\ ~last'.success) => (error' # Null /\ data' = data)]_vars

C11_DisabledIssuesNothing ==
    [][(last'.op \in {"mount", "change", "refetch"} /\ ~options'.enabled)
       => /\ issued' = issued /\ inflight' = inflight
          /\ data' = data /\ loading' = loading
          /\ error' = error /\ pagination' = pagination]_vars

\* C11 witness: the options changed to disabled ones, or refetch was called
\* while disabled, with data, a total and an error of earlier requests held
C11_Witness ==
    /\ last.op \in {"change", "refetch"} /\ ~options.enabled
    /\ data # <<>> /\ pagination.total > 0 /\ error # Null
    /\ issued >= 2 /\ inflight = {}

\* the failures of the remote call
FailureKinds == {"http", "network", "null"}

\* C13: when the remote call fails (non-2xx status, network failure, body that
\* does not parse or is null) the promise of fetchStocks is fulfilled, error
\* is a message, loading is false, and data and pagination are kept.
C13_FailureStaysInside ==
    [][(last'.op = "settle" /\ last'.kind \in FailureKinds)
       => /\ last'.promise = "fulfilled"
          /\ error' # Null /\ error' # ""
          /\ loading' = FALSE
          /\ data' = data /\ pagination' = pagination]_vars

\* C13 witness: a request failed without a response while data of an earlier
\* response is held
C13_Witness ==
    /\ last.op = "settle" /\ last.kind = "network"
    /\ last.promise = "fulfilled" /\ error # Null /\ ~loading
    /\ data # <<>>

\* the message the specification gives a failure, by status
KindMessage(status) ==
    CASE status = 400 -> "Invalid request. Please check your input."
      [] status = 401 -> "Authentication required. Please log in."
      [] status = 403 -> "Access denied. You don't have permission for this action."
      [] status = 404 -> "Data not found. The requested resource doesn't exist."
      [] status = 429 -> "Too many requests. Please try again later."
      [] status = 500 -> "Server error. Please try again later."
      [] OTHER -> "Network error. Please check your connection and try again."

\* C14: after a failed request error is the message of the failure's kind:
\* that of its status for 400, 401, 403, 404, 429 and 500, and the
\* network-error message for every other status and every non-HTTP failure.
C14_ErrorKindByStatus ==
    (last.op = "settle" /\ last.kind \in {"http", "network"})
    => error = KindMessage(last.status)

C17_SuccessReplacesAll ==
    [][(last'.op = "settle" /\ last'.success)
       => \E raw \in Outcomes(mockStockData, last'.request) :
              /\ raw.kind = "ok" /\ raw.body.success
              /\ data' = raw.body.data
              /\ IsSome(raw.body.pagination)
              /\ pagination' = [page |-> Get(raw.body.pagination).page,
                                pageSize |-> Get(raw.body.pagination).pageSize,
                                total |-> Get(raw.body.pagination).total]]_vars

\* C12: with enabled true, the first render, every render with changed
\* filters, sort, page, pageSize or enabled, and every refetch issue one new
\* request, which carries the filters, sort and pagination of that render.
C12_ChangeIssuesRequest ==
    [][(last'.op \in {"mount", "change", "refetch"} /\ options'.enabled)
       => /\ issued' = issued + 1
          /\ \E r \in inflight' \ inflight :
                 /\ r.id = issued'
                 /\ r.filters = options'.filters
                 /\ r.sort = options'.sort
                 /\ r.pagination = options'.pagination]_vars

\* C12 witness: the filters alone changed while a request was in flight, and
\* the request of the new filters is in flight with it
C12_Witness ==
    /\ last.op = "change" /\ last.changed = {"filters"} /\ options.enabled
    /\ \E r \in inflight : r.id = issued /\ r.filters = options.filters
    /\ Cardinality(inflight) >= 2

-----------------------------------------------------------------------------
(* Properties of the request round trip and of the handler's responses *)

\* C21: the handler evaluates the request getStocks builds with the numeric
\* bounds of the criteria: the records it returns lie within the price, change
\* and confidence ranges, and its total counts the records that pass them and
\* the search, sector and prediction constraints.
C21_BoundsRoundTrip ==
    (IsSome(remoteOut) /\ IsSome(Get(remoteOut).q.filters))
    => LET out == Get(remoteOut)
           f == Get(out.q.filters)
       IN  /\ \A stock \in Elems(out.body.data) :
                  PriceOk(stock, f) /\ ChangeOk(stock, f) /\ ConfidenceOk(stock, f)
           /\ Get(out.body.pagination).total =
                  Cardinality({stock \in Elems(out.on) : PassesAll(stock, f)})

\* C22: every response of the handler is either success = true with data and
\* a pagination of page, pageSize, total and totalPages, or success = false
\* with data = [], a message and no pagination.
C22_ResponseShapes ==
    IsSome(remoteOut)
    => LET res == Get(remoteOut)
       IN  \/ /\ res.body.success
              /\ res.status = 200
              /\ IsSome(res.body.pagination)
              /\ DOMAIN Get(res.body.pagination) = {"page", "pageSize", "total", "totalPages"}
              /\ Elems(res.body.data) \subseteq Elems(res.on)
           \/ /\ ~res.body.success
              /\ res.body.data = <<>>
              /\ res.body.message # ""
              /\ res.body.pagination = None

\* C22 witness: the handler's sort threw on a request whose sortBy names a
\* dotted field with an unknown parent, and the response is the failure shape
C22_Witness ==
    /\ IsSome(remoteOut)
    /\ Get(remoteOut).q.sort.field = <<"meta", "rank">>
    /\ Get(remoteOut).status = 500
    /\ ~Get(remoteOut).body.success
    /\ Get(remoteOut).body.data = <<>> /\ Get(remoteOut).body.pagination = None


-----------------------------------------------------------------------------
(* Properties of the table wired to the hook *)

\* the number of records of the bundled array that match the filters
MatchingTotal == Len(LocalFiltered(mockStockData, tableFilters))

\* C23: the total the table shows and passes to the pagination controls is the
\* number of records that match before slicing: the total of the response's
\* pagination when the rows are the remote data, the length of the filtered
\* array when they are the local ones.
C23_TotalBeforeSlicing ==
    (IsSome(view) /\ ~Pending)
    => Get(view).totalFiltered =
           IF data # <<>> /\ error = Null THEN pagination.total ELSE MatchingTotal

\* C24: loading is true whenever a request that was issued has not settled.
C24_LoadingWhileInFlight == inflight # {} => loading

\* C25: the step in which a request settles issues no request: the state
\* updates of a settling request do not trigger a new one.
C25_SettleIssuesNothing ==
    [][last'.op = "settle" => (issued' = issued /\ inflight' \subseteq inflight)]_vars

\* C27: a page within the pages of the records that match stays the page
\* until the user changes page, page size, sort or filters: a settling
\* request and the renders that follow it leave it as it is.
C27_ValidPageKept ==
    [][(/\ IsSome(view)
        /\ last'.op \in {"settle", "rerender"}
        /\ tablePagination.page <= CeilDiv(MatchingTotal, tablePagination.pageSize))
       => tablePagination'.page = tablePagination.page]_vars


-----------------------------------------------------------------------------
(* Properties of PaginationControls *)

\* the positions of the page numbers in a page-number list
NumberPositions(list) == {i \in 1..Len(list) : list[i] # Ellipsis}

\* C26: the page-number list is strictly increasing in its numbers, starts
\* with 1, ends with totalPages, contains the current page, and between two
\* numbers that follow each other in it stands an ellipsis exactly when they
\* are not consecutive.
C26_PageListComplete ==
    IsSome(controls.pageNumbers)
    => LET list == Get(controls.pageNumbers)
           nums == NumberPositions(list)
           totalPages == ControlsTotalPages(controls.pagination)
       IN  /\ list # <<>>
           /\ list[1] = 1
           /\ list[Len(list)] = totalPages
           /\ \E i \in nums : list[i] = controls.pagination.page
           /\ \A i, j \in nums : i < j => list[i] < list[j]
           /\ \A i \in 1..(Len(list) - 1) : ~(list[i] = Ellipsis /\ list[i + 1] = Ellipsis)
           /\ \A i, j \in nums :
                  (i < j /\ \A k \in (i + 1)..(j - 1) : k \notin nums)
                  => ((j > i + 1) <=> (list[j] # list[i] + 1))


-----------------------------------------------------------------------------
(* Properties of the table's handlers *)

\* C28: a change of sort gives direction desc when the field stays and the
\* direction was asc, and direction asc in every other case (the field stays
\* with desc, or another field is chosen).
C28_SortToggles ==
    [][sortOptions' # sortOptions
       => sortOptions'.direction =
              IF sortOptions'.field = sortOptions.field /\ sortOptions.direction = StrAsc
              THEN StrDesc ELSE StrAsc]_vars

\* C28 witness: a field other than the initial one is sorted desc, which two
\* clicks on it have given (asc, then desc)
C28_Witness ==
    /\ IsSome(view)
    /\ sortOptions = [field |-> <<"currentPrice">>, direction |-> StrDesc]
    /\ Get(view).paginatedData # <<>>
    /\ Get(view).paginatedData[1] = StockM

\* a step of a handler of the table: the filters and what the hook returns
\* stay as they are
HandlerStep ==
    /\ IsSome(view)
    /\ tableFilters' = tableFilters
    /\ data' = data /\ error' = error

\* C29: a change of sort and a change of page size set page to 1 and leave
\* total (and, for sort, pageSize) as they were; any other step of a handler
\* changes page alone, to the page asked for.
C29_HandlersFrame ==
    [][HandlerStep
       => /\ tablePagination'.total = tablePagination.total
          /\ sortOptions' # sortOptions
             => /\ tablePagination'.page = 1
                /\ tablePagination'.pageSize = tablePagination.pageSize
          /\ tablePagination'.pageSize # tablePagination.pageSize
             => /\ tablePagination'.page = 1
                /\ sortOptions' = sortOptions
          /\ (sortOptions' = sortOptions
              /\ tablePagination'.pageSize = tablePagination.pageSize)
             => tablePagination'.page = requestedPage']_vars

\* C29 witness: the sort was changed twice and the page size was changed from
\* its initial 25; the page is 1 of 2 and the total 3 as before
C29_Witness ==
    /\ IsSome(view)
    /\ sortOptions = [field |-> <<"prediction", "confidence">>, direction |-> StrDesc]
    /\ tablePagination = [page |-> 1, pageSize |-> 2, total |-> 3]
    /\ requestedPage = 1
    /\ Len(Get(view).paginatedData) = 2

\* C30: whenever PaginationControls is rendered (totalFiltered > 0), the
\* range it displays satisfies 1 <= startItem <= endItem <= total.
C30_ItemRange ==
    (IsSome(view) /\ Get(view).totalFiltered > 0)
    => LET pag == [tablePagination EXCEPT !.total = Get(view).totalFiltered]
       IN  /\ 1 <= StartItem(pag)
           /\ StartItem(pag) <= EndItem(pag)
           /\ EndItem(pag) <= pag.total

\* C30 witness: the last page of three records by two is shown: items 3-3 of 3
C30_Witness ==
    /\ IsSome(view) /\ Get(view).totalFiltered = 3
    /\ tablePagination.page = 2 /\ tablePagination.pageSize = 2
    /\ StartItem([tablePagination EXCEPT !.total = 3]) = 3
    /\ EndItem([tablePagination EXCEPT !.total = 3]) = 3


=============================================================================
